---- MODULE Spec2Model ----
(***************************************************************************)
(* Model of the robust face comparison of photo_comp:                      *)
(*   FaceComparator.get_face_encodings  (the detection fallback chain)     *)
(*   FaceComparator.compare_faces       (all-pairs embedding matching)     *)
(* Distances and the tolerance are integers in thousandths (0.45 = 450);   *)
(* an embedding is a point on a line, EmbStep thousandths apart, and the   *)
(* distance of two embeddings is the Euclidean distance of the points.     *)
(* The confidence is held in thousandths of a percent.                     *)
(* Further specifications over the same variables:                         *)
(*   SpecParse  ImageMasker.parse_rectangle_data                           *)
(*   SpecMask   ImageMasker masks, painting, statistics, masked files      *)
(*   SpecWeb    the /compare handler of app.py                             *)
(*   SpecPreprocess  FaceComparator.preprocess_image_variations            *)
(*   SpecCascade     FaceComparator.detect_with_opencv_fallback            *)
(*   SpecConc        two /compare requests interleaved on one folder       *)
(*   SpecValidate    ImageMasker.validate_rectangles_match                 *)
(*   SpecReparse     parse_rectangle_data applied to its own output        *)
(***************************************************************************)
EXTENDS Integers, Sequences, FiniteSets, TLC

(* ---- bounds ---- *)
MaxFaces == 2          \* most regions one detector call reports
MaxEmb == 2            \* embeddings are the points 0..MaxEmb
EmbStep == 300         \* spacing of the points, in thousandths
MaxRects == 2          \* most elements of a rectangle list

(* ---- program constants ---- *)
DefaultTolerance == 450
ResizeLimit == 1200
ListedMax == 3         \* matches[:3]
Inf == 1000000         \* float("inf")
One == 100             \* 1.0, in hundredths

Tolerances == {DefaultTolerance, 300}
Emb == 0..MaxEmb

Max(a, b) == IF a >= b THEN a ELSE b
Abs(a) == IF a >= 0 THEN a ELSE 0 - a

(* ---- Python values ---- *)
None == [tag |-> "None", items |-> <<>>]
Unset == [tag |-> "unset", items |-> <<>>]
List(s) == [tag |-> "list", items |-> s]
Truthy(v) == v.tag = "list" /\ v.items # <<>>

(* ---- image files on disk ---- *)
Missing == [ok |-> FALSE, w |-> 0, h |-> 0]
ImageFiles ==
  {Missing, [ok |-> TRUE, w |-> 1200, h |-> 900], [ok |-> TRUE, w |-> 2000, h |-> 1500]}

\* preprocess_image_variations: the labels of the variations, in order
VariationLabels(f) ==
  IF Max(f.w, f.h) > ResizeLimit
    THEN <<"Original resized">>
    ELSE <<"Original", "Enhanced contrast", "Brightened", "Smaller">>

(* ---- messages ---- *)
FoundMsg(n, strategy, var_name) ==
  <<"Found ", ToString(n), " faces using ", strategy, " on ", var_name>>

NoFacesMsg == <<"No faces detected with any method or image variation">>

(* ---- outcomes of the external detector and encoder ---- *)
\* face_recognition.face_locations: a number of regions, or an exception
DetectOutcomes == {[raised |-> r, n |-> n] : r \in {FALSE}, n \in 0..MaxFaces}
                    \cup {[raised |-> TRUE, n |-> 0]}

\* face_recognition.face_encodings on n regions: a list of embeddings
\* (one per region, or none at all), or an exception
EncodeOutcomes(n) ==
  {[raised |-> FALSE, encs |-> e] : e \in [1..n -> Emb] \cup {<<>>}}
    \cup {[raised |-> TRUE, encs |-> <<>>]}

\* cascade detections (x, y, w, h) as detectMultiScale reports them:
\* a square one, a tall one (ratio 2/3) and a wide one (ratio 5/4)
BoxSquare == [x |-> 10, y |-> 20, w |-> 100, h |-> 100]
BoxTall == [x |-> 10, y |-> 20, w |-> 80, h |-> 120]
BoxWide == [x |-> 0, y |-> 0, w |-> 125, h |-> 100]

CascadeOutcomes ==
  {[raised |-> FALSE, boxes |-> b] :
      b \in {<<>>, <<BoxSquare>>, <<BoxTall>>, <<BoxTall, BoxSquare>>,
             <<BoxSquare, BoxWide>>}}
    \cup {[raised |-> TRUE, boxes |-> <<>>]}

VARIABLES
  tolerance,      \* self.tolerance
  files,          \* the two image files at image1_path, image2_path
  pc,             \* position in compare_faces / get_face_encodings
  img,            \* which image get_face_encodings is working on (1 or 2)
  variations,     \* labels of the variations of the current image
  vi,             \* index of the loop variable (var_name, image_np)
  face_locations, \* number of regions of the latest detection
  opencv_faces,   \* regions of the cascade fallback
  calls,          \* detector and encoder calls of the current encode call
  estate,         \* per image: "idle", "running", "returned", "raised"
  encodings,      \* per image: the embeddings get_face_encodings returned
  msg,            \* per image: the message get_face_encodings returned
  i, j,           \* loop indices of the pairwise comparison
  best_distance,
  matches,
  dcalls,         \* the pairs face_distance was called on, in order
  is_match,
  confidence,
  printed,        \* the result lines compare_faces printed
  ret             \* what compare_faces returned

VARIABLES
  rectangle_json, \* the argument of parse_rectangle_data
  parsed          \* what parse_rectangle_data did with it

VARIABLES
  disk,           \* the image files, by path
  rectangles,     \* the rectangle dictionaries given to the masker
  mask_color,     \* the fill colour
  mask,           \* the mask array a caller holds
  masked_img,     \* the image apply_mask_to_image returned
  stats           \* what get_mask_statistics returned

VARIABLES
  form,           \* the /compare request: two uploads and two form fields
  uploads,        \* the files of UPLOAD_FOLDER, by name
  wpc,            \* position of the /compare handler
  rectangles1,    \* parse_rectangle_data(rectangles1_json)
  rectangles2,    \* parse_rectangle_data(rectangles2_json)
  comparison_filepath, \* the two paths handed to compare_faces
  mask_calls,     \* the create_masked_image_file calls of the handler
  compare_call,   \* what compare_faces was called on and returned
  result_data     \* what the handler rendered

VARIABLES
  image_file,     \* the file at the image_path of preprocess_image_variations
  pre_ret,        \* what preprocess_image_variations did with it
  cascade,        \* what cvtColor and detectMultiScale do in one fallback call
  good_faces,     \* what detect_with_opencv_fallback returned
  match_args,     \* rectangles1, rectangles2, tolerance of validate_rectangles_match
  match_ret,      \* what validate_rectangles_match returned
  reparsed        \* parse_rectangle_data on the serialized result of a first call

VARIABLES
  requests,       \* the /compare requests the server works on at the same time
  rpc,            \* per request: the position of its handler
  folder,         \* the files of UPLOAD_FOLDER the requests share, by name
  loaded          \* per request: the images its comparator loaded

faceVars == <<tolerance, files, pc, img, variations, vi, face_locations,
              opencv_faces, calls, estate, encodings, msg, i, j, best_distance,
              matches, dcalls, is_match, confidence, printed, ret>>
parseVars == <<rectangle_json, parsed>>
maskVars == <<disk, rectangles, mask_color, mask, masked_img, stats>>
maskerVars == <<parseVars, maskVars>>
webVars == <<form, uploads, wpc, rectangles1, rectangles2, comparison_filepath,
            mask_calls, compare_call, result_data>>

unitVars == <<image_file, pre_ret, cascade, good_faces, match_args, match_ret,
             reparsed>>
concVars == <<requests, rpc, folder, loaded>>
moreVars == <<unitVars, concVars>>

vars == <<faceVars, maskerVars, webVars, moreVars>>

encVars == <<variations, vi, face_locations, opencv_faces, calls>>
cmpVars == <<i, j, best_distance, matches, dcalls, is_match, confidence, printed,
            ret>>

NoRet == [kind |-> "none", is_match |-> FALSE, summary |-> <<>>]

\* the locals of compare_faces and get_face_encodings before the call
FaceLocals ==
  /\ img = 0
  /\ variations = <<>>
  /\ vi = 0
  /\ face_locations = 0
  /\ opencv_faces = <<>>
  /\ calls = <<>>
  /\ estate = [k \in 1..2 |-> "idle"]
  /\ encodings = [k \in 1..2 |-> Unset]
  /\ msg = [k \in 1..2 |-> <<>>]
  /\ i = 0
  /\ j = 0
  /\ best_distance = Inf
  /\ matches = <<>>
  /\ dcalls = <<>>
  /\ is_match = FALSE
  /\ confidence = 0
  /\ printed = <<>>
  /\ ret = NoRet

\* json.loads results and the outcome of a call
Ok(v) == [exc |-> "none", value |-> v]
Exc(e) == [exc |-> e, value |-> <<>>]
NotCalled == [exc |-> "not called", value |-> <<>>]
NoJson == [kind |-> "empty", items |-> <<>>]

\* parse_rectangle_data has not been called
ParseIdle ==
  /\ rectangle_json = NoJson
  /\ parsed = NotCalled

\* colours, as RGB and as grey levels
Black == <<0, 0, 0>>
White == <<255, 255, 255>>
Red == <<255, 0, 0>>

NoFile == [w |-> 0, h |-> 0, mode |-> "none", px |-> <<>>]
NoMask == [by |-> "nobody", w |-> 0, h |-> 0, on |-> <<>>]
NoStats ==
  [total_pixels |-> -1, masked_pixels |-> -1, unmasked_pixels |-> -1,
   mask_percentage |-> [num |-> 0, den |-> 1],
   unmasked_percentage |-> [num |-> 0, den |-> 1]]

\* no method of the masker has been called on an image
MaskIdle ==
  /\ disk = [path \in {"in", "out"} |-> NoFile]
  /\ rectangles = <<>>
  /\ mask_color = Black
  /\ mask = NoMask
  /\ masked_img = NoFile
  /\ stats = NoStats

\* what the handler holds before a request
NoCall == [paths |-> <<>>, read |-> <<>>, is_same_person |-> FALSE, details |-> ""]
NoResult ==
  [image1 |-> "", image2 |-> "", is_same_person |-> FALSE, details |-> "",
   confidence |-> "", mask_applied |-> FALSE, mask_stats |-> NoStats,
   rectangles_count |-> 0]
NoForm ==
  [filename1 |-> "", filename2 |-> "", file1 |-> NoFile, file2 |-> NoFile,
   rectangles1 |-> NoJson, rectangles2 |-> NoJson]
WebLocals ==
  /\ rectangles1 = <<>>
  /\ rectangles2 = <<>>
  /\ comparison_filepath = <<>>
  /\ mask_calls = <<>>
  /\ compare_call = NoCall
  /\ result_data = NoResult

\* no request has arrived
WebIdle ==
  /\ form = NoForm
  /\ uploads = <<>>
  /\ wpc = "idle"
  /\ WebLocals

\* no call of the single functions below has been made
NoCascade == [raised |-> FALSE, at |-> "none", boxes |-> <<>>]
NoMatchArgs == [rectangles1 |-> <<>>, rectangles2 |-> <<>>, tolerance |-> 1]
UnitIdle ==
  /\ image_file = Missing
  /\ pre_ret = NotCalled
  /\ cascade = NoCascade
  /\ good_faces = NotCalled
  /\ match_args = NoMatchArgs
  /\ match_ret = NotCalled
  /\ reparsed = NotCalled

\* the server works on no request
ConcIdle ==
  /\ requests = <<>>
  /\ rpc = <<>>
  /\ folder = <<>>
  /\ loaded = <<>>

MoreIdle == UnitIdle /\ ConcIdle

Init ==
  /\ MoreIdle
  /\ ParseIdle
  /\ MaskIdle
  /\ WebIdle
  /\ tolerance \in Tolerances
  /\ files \in [1..2 -> ImageFiles]
  /\ pc = "begin"
  /\ FaceLocals

\* no comparison is running
FaceIdle ==
  /\ tolerance = DefaultTolerance
  /\ files = [k \in 1..2 |-> Missing]
  /\ pc = "idle"
  /\ FaceLocals

(* ---- how one get_face_encodings call ends ---- *)
\* a normal return (encs, m) to compare_faces, lines 182-186; the locals
\* of the call are gone (the call log is kept until the caller moves on)
EncodeReturns(k, encs, m) ==
  /\ estate' = [estate EXCEPT ![k] = "returned"]
  /\ encodings' = [encodings EXCEPT ![k] = encs]
  /\ msg' = [msg EXCEPT ![k] = m]
  /\ face_locations' = 0
  /\ opencv_faces' = <<>>
  /\ pc' = IF k = 1 THEN "call2" ELSE "check"

\* an exception leaves get_face_encodings; compare_faces has no handler
EncodeRaises(k) ==
  /\ estate' = [estate EXCEPT ![k] = "raised"]
  /\ face_locations' = 0
  /\ opencv_faces' = <<>>
  /\ pc' = "raised"
  /\ UNCHANGED <<encodings, msg>>

\* the call goes on at position p
GoOn(p) ==
  /\ pc' = p
  /\ UNCHANGED <<estate, encodings, msg, opencv_faces>>

\* one entry of the call log: which call, on which variation, and whether
\* it raised or gave a non-empty result
Call(fn, strategy, o, n) ==
  [fn |-> fn, strategy |-> strategy, var |-> vi, raised |-> o.raised, hit |-> n > 0]

Found(n) == n > 0                 \* if face_locations:

\* (mutant) the check of the embedding list is dropped
Usable_Always(encs) == TRUE
Usable(encs) == encs # <<>>       \* if encodings:

\* line 172: the first component of the final return
NoFacesValue_EmptyList == List(<<>>)
NoFacesValue == None

\* (mutant) the loop is left after its first iteration
LoopNext_Early == vi' = vi /\ GoOn("hog2")
\* the for loop of line 113 moves to the next variation, or falls out of
\* the loop with (var_name, image_np) still bound to the last variation
LoopNext ==
  IF vi < Len(variations)
    THEN vi' = vi + 1 /\ GoOn("hog")
    ELSE vi' = vi /\ GoOn("hog2")

(* ---- compare_faces calls get_face_encodings ---- *)
\* lines 183, 186, 190-193: a message is printed when its call returns and
\* is read again only if that call returned None; otherwise it is dropped
PrintedMsg(encs, m) == IF encs = None THEN m ELSE <<>>

Begin ==
  /\ pc = "begin"
  /\ img' = 1
  /\ estate' = [estate EXCEPT ![1] = "running"]
  /\ pc' = "load"
  /\ UNCHANGED <<maskerVars, webVars, moreVars, tolerance, files, encVars, encodings, msg, cmpVars>>

Call2 ==
  /\ pc = "call2"
  /\ img' = 2
  /\ estate' = [estate EXCEPT ![2] = "running"]
  /\ variations' = <<>>
  /\ vi' = 0
  /\ calls' = <<>>
  /\ msg' = [msg EXCEPT ![1] = PrintedMsg(encodings[1], @)]
  /\ pc' = "load"
  /\ UNCHANGED <<maskerVars, webVars, moreVars, tolerance, files, face_locations, opencv_faces, encodings, cmpVars>>

\* (mutant) a load failure is caught and reported as (None, message)
Preprocess_Caught ==
  /\ pc = "load"
  /\ IF files[img].ok
       THEN /\ variations' = VariationLabels(files[img])
            /\ vi' = 1
            /\ GoOn("hog")
            /\ face_locations' = face_locations
       ELSE /\ EncodeReturns(img, None, <<"Error loading image">>)
            /\ UNCHANGED <<variations, vi>>
  /\ UNCHANGED <<maskerVars, webVars, moreVars, tolerance, files, img, calls, cmpVars>>
\* line 111: preprocess_image_variations loads the file or raises
Preprocess ==
  /\ pc = "load"
  /\ IF files[img].ok
       THEN /\ variations' = VariationLabels(files[img])
            /\ vi' = 1
            /\ GoOn("hog")
            /\ face_locations' = face_locations
       ELSE /\ EncodeRaises(img)
            /\ UNCHANGED <<variations, vi>>
  /\ UNCHANGED <<maskerVars, webVars, moreVars, tolerance, files, img, calls, cmpVars>>

\* lines 118-122: strategy 1, fast detector, upsample 1, no handler around it
HogDetect ==
  /\ pc = "hog"
  /\ \E o \in DetectOutcomes :
       /\ calls' = Append(calls, Call("face_locations", "HOG", o, o.n))
       /\ IF o.raised
            THEN EncodeRaises(img) /\ vi' = vi
            ELSE /\ face_locations' = o.n
                 /\ IF Found(o.n) THEN GoOn("hog_enc") /\ vi' = vi ELSE LoopNext
  /\ UNCHANGED <<maskerVars, webVars, moreVars, tolerance, files, img, variations, cmpVars>>

\* lines 123-129
HogEncode ==
  /\ pc = "hog_enc"
  /\ \E o \in EncodeOutcomes(face_locations) :
       /\ calls' = Append(calls, Call("face_encodings", "HOG", o, Len(o.encs)))
       /\ IF o.raised
            THEN EncodeRaises(img) /\ vi' = vi
            ELSE IF Usable(o.encs)
              THEN /\ EncodeReturns(img, List(o.encs),
                                    FoundMsg(Len(o.encs), "HOG", variations[vi]))
                   /\ vi' = vi
              ELSE LoopNext /\ face_locations' = face_locations
  /\ UNCHANGED <<maskerVars, webVars, moreVars, tolerance, files, img, variations, cmpVars>>

\* lines 132-136 and 144-145: strategy 2; an exception enters the handler,
\* whose body (lines 145-157) holds strategy 3
Hog2Detect ==
  /\ pc = "hog2"
  /\ \E o \in DetectOutcomes :
       /\ calls' = Append(calls, Call("face_locations", "HOG 2x", o, o.n))
       /\ face_locations' = (IF o.raised THEN face_locations ELSE o.n)
       /\ GoOn(IF o.raised THEN "cnn" ELSE IF Found(o.n) THEN "hog2_enc" ELSE "cv")
  /\ UNCHANGED <<maskerVars, webVars, moreVars, tolerance, files, img, variations, vi, cmpVars>>

\* lines 137-145
Hog2Encode ==
  /\ pc = "hog2_enc"
  /\ \E o \in EncodeOutcomes(face_locations) :
       /\ calls' = Append(calls, Call("face_encodings", "HOG 2x", o, Len(o.encs)))
       /\ IF ~o.raised /\ Usable(o.encs)
            THEN EncodeReturns(img, List(o.encs),
                               FoundMsg(Len(o.encs), "HOG 2x", variations[vi]))
            ELSE /\ GoOn(IF o.raised THEN "cnn" ELSE "cv")
                 /\ face_locations' = face_locations
  /\ UNCHANGED <<maskerVars, webVars, moreVars, tolerance, files, img, variations, vi, cmpVars>>

\* lines 149-150: strategy 3, inside the except block, so nothing catches it
CnnDetect ==
  /\ pc = "cnn"
  /\ \E o \in DetectOutcomes :
       /\ calls' = Append(calls, Call("face_locations", "CNN", o, o.n))
       /\ IF o.raised
            THEN EncodeRaises(img)
            ELSE /\ face_locations' = o.n
                 /\ GoOn(IF Found(o.n) THEN "cnn_enc" ELSE "cv")
  /\ UNCHANGED <<maskerVars, webVars, moreVars, tolerance, files, img, variations, vi, cmpVars>>

\* lines 151-157
CnnEncode ==
  /\ pc = "cnn_enc"
  /\ \E o \in EncodeOutcomes(face_locations) :
       /\ calls' = Append(calls, Call("face_encodings", "CNN", o, Len(o.encs)))
       /\ IF o.raised
            THEN EncodeRaises(img)
            ELSE IF Usable(o.encs)
              THEN EncodeReturns(img, List(o.encs),
                                 FoundMsg(Len(o.encs), "CNN", variations[vi]))
              ELSE GoOn("cv") /\ face_locations' = face_locations
  /\ UNCHANGED <<maskerVars, webVars, moreVars, tolerance, files, img, variations, vi, cmpVars>>

\* (mutant) only the lower end of the ratio is tested
GoodFace_LowerOnly(b) == 4 * b.h <= 5 * b.w
\* detect_with_opencv_fallback, lines 94-104: the aspect-ratio filter and
\* the conversion to (top, right, bottom, left); any exception gives []
GoodFace(b) == 4 * b.h <= 5 * b.w /\ 4 * b.w <= 5 * b.h
ToRegion(b) == <<b.y, b.x + b.w, b.y + b.h, b.x>>
DetectWithOpencvFallback(o) ==
  IF o.raised THEN <<>>
  ELSE LET keep == SelectSeq(o.boxes, GoodFace)
       IN  [p \in 1..Len(keep) |-> ToRegion(keep[p])]

\* lines 161-162 and 172: strategy 4
CvDetect ==
  /\ pc = "cv"
  /\ \E o \in CascadeOutcomes :
       LET good == DetectWithOpencvFallback(o) IN
       /\ calls' = Append(calls, [fn |-> "detect_with_opencv_fallback",
                                  strategy |-> "OpenCV fallback", var |-> vi,
                                  raised |-> FALSE, hit |-> good # <<>>])
       /\ IF good # <<>>
            THEN /\ pc' = "cv_enc"
                 /\ opencv_faces' = good
                 /\ UNCHANGED <<estate, encodings, msg, face_locations>>
            ELSE EncodeReturns(img, NoFacesValue, NoFacesMsg)
  /\ UNCHANGED <<maskerVars, webVars, moreVars, tolerance, files, img, variations, vi, cmpVars>>

\* lines 164-172
CvEncode ==
  /\ pc = "cv_enc"
  /\ \E o \in EncodeOutcomes(Len(opencv_faces)) :
       /\ calls' = Append(calls, Call("face_encodings", "OpenCV fallback", o, Len(o.encs)))
       /\ IF o.raised
            THEN EncodeRaises(img)
            ELSE IF Usable(o.encs)
              THEN EncodeReturns(img, List(o.encs),
                                 FoundMsg(Len(o.encs), "OpenCV fallback", variations[vi]))
              ELSE EncodeReturns(img, NoFacesValue, NoFacesMsg)
  /\ UNCHANGED <<maskerVars, webVars, moreVars, tolerance, files, img, variations, vi, cmpVars>>

(* ---- compare_faces after the two encode calls ---- *)
\* (mutant) the failure branch is taken only when both are None
DetectionFailed_Both(e1, e2) == e1 = None /\ e2 = None
\* line 188
DetectionFailed(e1, e2) == e1 = None \/ e2 = None

\* face_recognition.face_distance([enc1], enc2)[0], line 209
FaceDistance(a, b) == Abs(a - b) * EmbStep

\* (mutant) strict comparison with the tolerance
IsPairMatch_Strict(distance, tol) == distance < tol
\* line 210
IsPairMatch(distance, tol) == distance <= tol

\* (mutant) the best distance is never updated
BetterDistance_Never(distance, best) == best
\* line 212-213
BetterDistance(distance, best) == IF distance < best THEN distance ELSE best

\* (mutant) the clamp at 0 is dropped
Confidence_NoClamp(best, tol) ==
  IF best # Inf THEN ((tol - best) * 100000) \div tol ELSE 0
\* lines 216-220; the result is in thousandths of a percent
Confidence(best, tol) ==
  IF best # Inf THEN Max(0, ((tol - best) * 100000) \div tol) ELSE 0

\* f"{x:.3f}" of a distance in thousandths
Pad3(n) ==
  IF n < 10 THEN "00" \o ToString(n)
  ELSE IF n < 100 THEN "0" \o ToString(n) ELSE ToString(n)
Fmt3(d) ==
  IF d = Inf THEN "inf" ELSE ToString(d \div 1000) \o "." \o Pad3(d % 1000)

\* f"{x:.1f}" of a percentage in thousandths of a percent
Fmt1(c) ==
  LET tenths == (c + 50) \div 100
  IN  ToString(tenths \div 10) \o "." \o ToString(tenths % 10)

\* (mutant) the summary reports the confidence only
Summary_NoDistance(best, conf) == <<"Confidence: ", Fmt1(conf), "%">>
\* line 244
Summary(best, conf) ==
  <<"Distance: ", Fmt3(best), ", Confidence: ", Fmt1(conf), "%">>

\* line 199
FailureSummary == <<"Face detection failed">>

Returned(m, s) == [kind |-> "returned", is_match |-> m, summary |-> s]

\* lines 188-205; the locals of the finished encode call are gone
CheckEncodings ==
  /\ pc = "check"
  /\ IF DetectionFailed(encodings[1], encodings[2])
       THEN /\ ret' = Returned(FALSE, FailureSummary)
            /\ pc' = "done"
            /\ UNCHANGED <<i, j, best_distance, matches>>
       ELSE /\ best_distance' = Inf
            /\ matches' = <<>>
            /\ i' = 1
            /\ j' = 1
            /\ pc' = IF encodings[1].items # <<>> /\ encodings[2].items # <<>>
                       THEN "pairs" ELSE "final"
            /\ ret' = ret
  /\ variations' = <<>>
  /\ vi' = 0
  /\ calls' = <<>>
  /\ UNCHANGED <<face_locations, opencv_faces>>
  /\ msg' = [msg EXCEPT ![2] = PrintedMsg(encodings[2], @)]
  /\ UNCHANGED <<maskerVars, webVars, moreVars, tolerance, files, img, estate, encodings, dcalls,
                 is_match, confidence, printed>>

\* lines 207-213: one iteration of the inner loop
ComparePair ==
  /\ pc = "pairs"
  /\ LET distance == FaceDistance(encodings[1].items[i], encodings[2].items[j]) IN
       /\ dcalls' = Append(dcalls, <<i, j>>)
       /\ matches' = IF IsPairMatch(distance, tolerance)
                       THEN Append(matches, <<i, j, distance>>) ELSE matches
       /\ best_distance' = BetterDistance(distance, best_distance)
  /\ IF j < Len(encodings[2].items)
       THEN j' = j + 1 /\ i' = i /\ pc' = "pairs"
       ELSE IF i < Len(encodings[1].items)
         THEN j' = 1 /\ i' = i + 1 /\ pc' = "pairs"
         ELSE j' = j /\ i' = i /\ pc' = "final"
  /\ UNCHANGED <<maskerVars, webVars, moreVars, tolerance, files, img, encVars, estate, encodings, msg,
                 is_match, confidence, printed, ret>>

\* lines 232-233: one printed line per listed pair
PairLine(m) ==
  "Face " \o ToString(m[1]) \o " <-> Face " \o ToString(m[2])
    \o " (distance: " \o Fmt3(m[3]) \o ")"

\* line 232: matches[:3]
ListedPairs(ms) == SubSeq(ms, 1, IF Len(ms) > ListedMax THEN ListedMax ELSE Len(ms))

\* lines 229-235: what the match branch prints, one token per piece
MatchReport(ms) ==
  <<"SAME PERSON", ToString(Len(ms)), " matching face pair(s) found:">>
    \o [k \in 1..Len(ListedPairs(ms)) |-> PairLine(ListedPairs(ms)[k])]
    \o (IF Len(ms) > ListedMax
          THEN <<"... and ", ToString(Len(ms) - ListedMax), " more">> ELSE <<>>)

\* lines 236-241: what the other branch prints
NoMatchReport(best) ==
  <<"DIFFERENT PEOPLE">>
    \o (IF best # Inf
          THEN <<"Closest similarity: ", Fmt3(best), " (above threshold)">>
          ELSE <<"No measurable similarity found">>)

\* (mutant) one matching pair is not enough
IsMatch_Several(ms) == Len(ms) > 1
\* line 215
IsMatch(ms) == Len(ms) > 0

\* lines 215-244
Finish ==
  /\ pc = "final"
  /\ is_match' = IsMatch(matches)
  /\ confidence' = Confidence(best_distance, tolerance)
  /\ printed' = IF is_match' THEN MatchReport(matches)
                              ELSE NoMatchReport(best_distance)
  /\ ret' = Returned(is_match', Summary(best_distance, confidence'))
  /\ pc' = "done"
  /\ UNCHANGED <<maskerVars, webVars, moreVars, tolerance, files, img, encVars, estate, encodings, msg,
                 i, j, best_distance, matches, dcalls>>

Next ==
  \/ Begin
  \/ Call2
  \/ Preprocess
  \/ HogDetect
  \/ HogEncode
  \/ Hog2Detect
  \/ Hog2Encode
  \/ CnnDetect
  \/ CnnEncode
  \/ CvDetect
  \/ CvEncode
  \/ CheckEncodings
  \/ ComparePair
  \/ Finish

Spec == Init /\ [][Next]_vars

TypeOK ==
  /\ pc \in {"idle", "begin", "load", "hog", "hog_enc", "hog2", "hog2_enc", "cnn", "cnn_enc",
             "cv", "cv_enc", "call2", "check", "pairs", "final", "done", "raised"}
  /\ img \in 0..2
  /\ vi \in 0..4

(* ================= ImageMasker (image_masking.py) ================= *)
(* Normalised coordinates are exact numbers in hundredths (1.0 = One);   *)
(* the rounding of binary floating point is not part of the model.       *)

Min(a, b) == IF a <= b THEN a ELSE b

\* the keys tested at line 39, in the order lines 42-54 read them
Keys == {"x", "y", "width", "height"}
KeyOrder == <<"x", "y", "width", "height">>

\* a JSON value of a field: a number, or something min() cannot compare
Num(v) == [num |-> TRUE, v |-> v]
NonNum == [num |-> FALSE, v |-> 0]

\* an element the loop of line 38 meets: keys is the set of the names for
\* which "key in rect" is true (the fields of an object, the substrings of
\* a string, the members of a list); f holds the fields of an object
Rect(x, y, width, height) ==
  [x |-> Num(x), y |-> Num(y), width |-> Num(width), height |-> Num(height)]
Elem(kind, keys, f) == [kind |-> kind, keys |-> keys, f |-> f]
Obj(x, y, width, height) == Elem("object", Keys, Rect(x, y, width, height))

JList(items) == [kind |-> "list", items |-> items]

(* ---- the inputs the model draws from ---- *)
XVals == {-20, 0, 80, 100}
YVals == {0, 50}
WVals == {-10, 20, 30}
HVals == {0, 50, 60}
BaseRect == Rect(0, 0, 20, 50)

FullObjects ==
  {Obj(x, y, w, h) : x \in XVals, y \in YVals, w \in WVals, h \in HVals}
LackingObjects ==
  {Elem("object", Keys \ {k}, BaseRect) : k \in Keys}
    \cup {Elem("object", {"x", "y"}, [BaseRect EXCEPT !.x = NonNum])}
NonNumObjects ==
  {Elem("object", Keys, [BaseRect EXCEPT ![k] = NonNum]) : k \in Keys}
NonObjects ==
  {Elem("number", {}, BaseRect), Elem("null", {}, BaseRect),
   Elem("string", {}, BaseRect), Elem("string", Keys, BaseRect),
   Elem("list", Keys, BaseRect)}
Elements == FullObjects \cup LackingObjects \cup NonNumObjects \cup NonObjects

SeqsUpTo(S, n) == UNION {[1..m -> S] : m \in 0..n}

\* "" | text json.loads rejects | a JSON number | a JSON object (iterating
\* it gives its keys) | a JSON string (its characters) | a JSON list
JsonInputs ==
  {NoJson,
   [kind |-> "not json", items |-> <<>>],
   [kind |-> "scalar", items |-> <<>>],
   [kind |-> "dict", items |-> <<Elem("string", {"x"}, BaseRect),
                                 Elem("string", {"y"}, BaseRect)>>],
   [kind |-> "string", items |-> <<Elem("string", {}, BaseRect)>>]}
    \cup {JList(items) : items \in SeqsUpTo(Elements, MaxRects)}

(* ---- parse_rectangle_data, lines 20-63 ---- *)
\* line 34
JsonLoads(json) ==
  IF json.kind = "not json" THEN Exc("JSONDecodeError") ELSE Ok(json)

\* (mutant) one key is enough
HasAllKeys_Any(rect) == \E key \in Keys : key \in rect.keys
\* line 39, for an element that supports "in"
HasAllKeys(rect) == \A key \in Keys : key \in rect.keys

\* lines 42-43
Clamp01(v) == Max(0, Min(One, v))

\* (mutant) one hundredth is kept free at the far edge
ClampedRect_Inset(f) ==
  LET x == Clamp01(f.x.v)
      y == Clamp01(f.y.v)
      max_width == One - x - 1
      max_height == One - y - 1
  IN  [x |-> x, y |-> y,
       width |-> Max(0, Min(max_width, f.width.v)),
       height |-> Max(0, Min(max_height, f.height.v))]
\* lines 42-55
ClampedRect(f) ==
  LET x == Clamp01(f.x.v)
      y == Clamp01(f.y.v)
      max_width == One - x
      max_height == One - y
  IN  [x |-> x, y |-> y,
       width |-> Max(0, Min(max_width, f.width.v)),
       height |-> Max(0, Min(max_height, f.height.v))]

\* (mutant) a rectangle clamped to nothing is kept
HasArea_OrNone(c) == c.width >= 0 /\ c.height >= 0
\* line 58
HasArea(c) == c.width > 0 /\ c.height > 0

\* rect["x"], rect["y"], rect["width"], rect["height"] given to min():
\* the first read that fails decides the exception
RECURSIVE FieldError(_, _)
FieldError(rect, k) ==
  IF k > Len(KeyOrder) THEN "none"
  ELSE IF rect.kind # "object" THEN "TypeError"
  ELSE IF KeyOrder[k] \notin rect.keys THEN "KeyError"
  ELSE IF ~rect.f[KeyOrder[k]].num THEN "TypeError"
  ELSE FieldError(rect, k + 1)

\* lines 39-59: the body of the loop for one element
ValidateOne(rect) ==
  IF rect.kind \in {"number", "null"} THEN Exc("TypeError")
  ELSE IF ~HasAllKeys(rect) THEN Ok(<<>>)
  ELSE IF FieldError(rect, 1) # "none" THEN Exc(FieldError(rect, 1))
  ELSE IF HasArea(ClampedRect(rect.f)) THEN Ok(<<ClampedRect(rect.f)>>)
  ELSE Ok(<<>>)

\* (mutant) a kept rectangle is put in front of the list
AppendValid_InFront(valid_rectangles, kept) == kept \o valid_rectangles
\* line 59: valid_rectangles.append(clamped_rect), when one was kept
AppendValid(valid_rectangles, kept) == valid_rectangles \o kept

\* lines 37-60
RECURSIVE ValidateAll(_, _)
ValidateAll(items, valid_rectangles) ==
  IF items = <<>> THEN Ok(valid_rectangles)
  ELSE LET o == ValidateOne(Head(items)) IN
         IF o.exc # "none" THEN o
         ELSE ValidateAll(Tail(items), AppendValid(valid_rectangles, o.value))

\* lines 33-60: the body of the try
TryParse(json) ==
  LET decoded == JsonLoads(json) IN
    IF decoded.exc # "none" THEN decoded
    ELSE IF json.kind = "scalar" THEN Exc("TypeError")
    ELSE ValidateAll(json.items, <<>>)

\* line 62
CaughtErrors == {"JSONDecodeError", "TypeError", "KeyError"}

\* lines 30-63
ParseRectangleData(json) ==
  IF json.kind = "empty" THEN Ok(<<>>)
  ELSE IF TryParse(json).exc \in CaughtErrors THEN Ok(<<>>)
  ELSE TryParse(json)

ParseRectangles ==
  /\ parsed = NotCalled
  /\ parsed' = ParseRectangleData(rectangle_json)
  /\ UNCHANGED <<faceVars, maskVars, webVars, moreVars, rectangle_json>>

InitParse ==
  /\ MoreIdle
  /\ FaceIdle
  /\ MaskIdle
  /\ WebIdle
  /\ rectangle_json \in JsonInputs
  /\ parsed = NotCalled

NextParse == ParseRectangles

(* ---- parse_rectangle_data on its own result ---- *)
\* the JSON text of a list of returned rectangles: a list of objects with
\* the four numeric fields
Dumps(rects) ==
  JList([k \in 1..Len(rects) |->
           Obj(rects[k].x, rects[k].y, rects[k].width, rects[k].height)])

\* a second call, on the serialized result of the first
ParseAgain ==
  /\ parsed # NotCalled
  /\ reparsed = NotCalled
  /\ reparsed' = ParseRectangleData(Dumps(parsed.value))
  /\ UNCHANGED <<faceVars, maskerVars, webVars, concVars, image_file, pre_ret,
                 cascade, good_faces, match_args, match_ret>>

\* the first call is given a list of objects with four numeric fields
InitReparse ==
  /\ FaceIdle
  /\ MaskIdle
  /\ WebIdle
  /\ MoreIdle
  /\ rectangle_json \in {JList(items) : items \in SeqsUpTo(FullObjects, MaxRects)}
  /\ parsed = NotCalled

NextReparse ==
  \/ ParseRectangles
  \/ ParseAgain

SpecReparse == InitReparse /\ [][NextReparse]_vars

SpecParse == InitParse /\ [][NextParse]_vars

(* ---- images and masks ---- *)
Pixels(w, h) == (0..(w - 1)) \X (0..(h - 1))

\* a picture of w x h pixels in the given mode: three colours in a
\* diagonal pattern, starting with the v-th
Palette(mode) ==
  IF mode = "RGB" THEN <<White, Black, Red>> ELSE <<<<255>>, <<0>>, <<128>>>>
Picture(w, h, mode, v) ==
  [w |-> w, h |-> h, mode |-> mode,
   px |-> [p \in Pixels(w, h) |-> Palette(mode)[((p[1] + 2 * p[2] + v) % 3) + 1]]]
Sizes == {<<1, 1>>, <<3, 2>>, <<4, 3>>}
Pictures ==
  {Picture(s[1], s[2], mode, v) : s \in Sizes, mode \in {"RGB", "L"}, v \in {0, 1}}

\* the rectangle dictionaries a caller passes
R(x, y, width, height) == [x |-> x, y |-> y, width |-> width, height |-> height]
MaskRects ==
  {R(0, 0, 100, 100), R(0, 0, 0, 0), R(25, 25, 50, 50), R(0, 0, 50, 50),
   R(80, 20, 30, 40), R(-20, 0, 50, 100), R(100, 100, 50, 50), R(34, 50, 33, 50)}

\* masks a caller built itself: an array without pixels, and one true pixel
CallerMasks ==
  {[by |-> "caller", w |-> 0, h |-> 0, on |-> <<>>],
   [by |-> "caller", w |-> 1, h |-> 1, on |-> [p \in Pixels(1, 1) |-> TRUE]]}

(* ---- create_mask_from_rectangles, lines 65-119 ---- *)
\* (mutant) the span is not widened to one pixel
Span_NoMinimum(rect, width, height) ==
  LET rect_x == Clamp01(rect.x)
      rect_y == Clamp01(rect.y)
      rect_width == Max(0, Min(One - rect_x, rect.width))
      rect_height == Max(0, Min(One - rect_y, rect.height))
      x1 == Max(0, Min((rect_x * width) \div One, width - 1))
      y1 == Max(0, Min((rect_y * height) \div One, height - 1))
  IN  [x1 |-> x1, y1 |-> y1,
       x2 |-> Min(((rect_x + rect_width) * width) \div One, width),
       y2 |-> Min(((rect_y + rect_height) * height) \div One, height)]
\* lines 95-111: the pixel span of one rectangle
Span(rect, width, height) ==
  LET rect_x == Clamp01(rect.x)
      rect_y == Clamp01(rect.y)
      rect_width == Max(0, Min(One - rect_x, rect.width))
      rect_height == Max(0, Min(One - rect_y, rect.height))
      x1 == Max(0, Min((rect_x * width) \div One, width - 1))
      y1 == Max(0, Min((rect_y * height) \div One, height - 1))
  IN  [x1 |-> x1, y1 |-> y1,
       x2 |-> Max(x1 + 1, Min(((rect_x + rect_width) * width) \div One, width)),
       y2 |-> Max(y1 + 1, Min(((rect_y + rect_height) * height) \div One, height))]

\* lines 114-115: draw.rectangle([x1, y1, x2 - 1, y2 - 1]) paints p
Drawn(rect, width, height, p) ==
  LET s == Span(rect, width, height) IN
    /\ s.x2 > s.x1 /\ s.y2 > s.y1
    /\ s.x1 <= p[1] /\ p[1] <= s.x2 - 1
    /\ s.y1 <= p[2] /\ p[2] <= s.y2 - 1

\* (mutant) a rectangle drawn later clears the pixels outside it
AfterDraw_Cleared(v, rect, width, height, p) == Drawn(rect, width, height, p)
\* line 114: fill=255 sets the pixels of the span, the others keep value v
AfterDraw(v, rect, width, height, p) ==
  IF Drawn(rect, width, height, p) THEN TRUE ELSE v

\* lines 93-114: the loop draws the rectangles one after the other
RECURSIVE CoveredFrom(_, _, _, _, _)
CoveredFrom(v, rects, width, height, p) ==
  IF rects = <<>> THEN v
  ELSE CoveredFrom(AfterDraw(v, Head(rects), width, height, p), Tail(rects),
                   width, height, p)

\* lines 89-118: the value of the mask at p for a non-empty list
Covered(rects, width, height, p) == CoveredFrom(FALSE, rects, width, height, p)

Zeros(width, height) ==
  [by |-> "create_mask_from_rectangles", w |-> width, h |-> height,
   on |-> [p \in Pixels(width, height) |-> FALSE]]

CreateMaskFromRectangles(file, rects) ==
  IF rects = <<>> THEN Zeros(file.w, file.h)
  ELSE [Zeros(file.w, file.h) EXCEPT
          !.on = [p \in Pixels(file.w, file.h) |-> Covered(rects, file.w, file.h, p)]]

(* ---- apply_mask_to_image, lines 121-154 ---- *)
\* line 139: convert("RGB")
ToRGB(c) == IF Len(c) = 1 THEN <<c[1], c[1], c[1]>> ELSE c
ConvertRGB(file) ==
  [file EXCEPT !.mode = "RGB", !.px = [p \in DOMAIN file.px |-> ToRGB(file.px[p])]]

\* lines 143-148: nearest-neighbour resize of the mask
ResizeNearest(m, w, h) ==
  [m EXCEPT !.w = w, !.h = h,
            !.on = [p \in Pixels(w, h) |->
                     m.on[<<((2 * p[1] + 1) * m.w) \div (2 * w),
                            ((2 * p[2] + 1) * m.h) \div (2 * h)>>]]]

\* (mutant) the colour goes where the mask is false
Paint_Inverted(im, m, color) ==
  [im EXCEPT !.px = [p \in DOMAIN im.px |-> IF ~m.on[p] THEN color ELSE im.px[p]]]
\* lines 151-152
Paint(im, m, color) ==
  [im EXCEPT !.px = [p \in DOMAIN im.px |-> IF m.on[p] THEN color ELSE im.px[p]]]

ApplyMaskToImage(file, m, color) ==
  LET rgb == ConvertRGB(file) IN
    IF <<m.h, m.w>> # <<rgb.h, rgb.w>>
      THEN Paint(rgb, ResizeNearest(m, rgb.w, rgb.h), color)
      ELSE Paint(rgb, m, color)

(* ---- get_mask_statistics, lines 186-210 ---- *)
\* a percentage, as the exact fraction num / den
Percentage(n, total_pixels) ==
  IF total_pixels > 0 THEN [num |-> n * 100, den |-> total_pixels]
                      ELSE [num |-> 0, den |-> 1]

\* (mutant) the unmasked pixels are counted as all pixels
GetMaskStatistics_AllUnmasked(m) ==
  LET total_pixels == m.w * m.h
      masked_pixels == Cardinality({p \in DOMAIN m.on : m.on[p]})
      unmasked_pixels == total_pixels
  IN  [total_pixels |-> total_pixels,
       masked_pixels |-> masked_pixels,
       unmasked_pixels |-> unmasked_pixels,
       mask_percentage |-> Percentage(masked_pixels, total_pixels),
       unmasked_percentage |-> Percentage(unmasked_pixels, total_pixels)]
GetMaskStatistics(m) ==
  LET total_pixels == m.w * m.h
      masked_pixels == Cardinality({p \in DOMAIN m.on : m.on[p]})
      unmasked_pixels == total_pixels - masked_pixels
  IN  [total_pixels |-> total_pixels,
       masked_pixels |-> masked_pixels,
       unmasked_pixels |-> unmasked_pixels,
       mask_percentage |-> Percentage(masked_pixels, total_pixels),
       unmasked_percentage |-> Percentage(unmasked_pixels, total_pixels)]

(* ---- the calls ---- *)
CallCreateMask ==
  /\ mask = NoMask
  /\ mask' = CreateMaskFromRectangles(disk["in"], rectangles)
  /\ UNCHANGED <<faceVars, parseVars, webVars, moreVars,
                 disk, rectangles, mask_color, masked_img, stats>>

CallApplyMask ==
  /\ mask # NoMask /\ mask.w * mask.h > 0
  /\ masked_img = NoFile
  /\ masked_img' = ApplyMaskToImage(disk["in"], mask, mask_color)
  /\ UNCHANGED <<faceVars, parseVars, webVars, moreVars,
                 disk, rectangles, mask_color, mask, stats>>

CallGetMaskStatistics ==
  /\ mask # NoMask
  /\ stats = NoStats
  /\ stats' = GetMaskStatistics(mask)
  /\ UNCHANGED <<faceVars, parseVars, webVars, moreVars,
                 disk, rectangles, mask_color, mask, masked_img>>

\* create_masked_image_file("in", "out", rectangles, mask_color), lines 156-184
CreateMaskedImageFile ==
  /\ disk["out"] = NoFile
  /\ disk' = [disk EXCEPT !["out"] =
                ApplyMaskToImage(disk["in"],
                                 CreateMaskFromRectangles(disk["in"], rectangles),
                                 mask_color)]
  /\ UNCHANGED <<faceVars, parseVars, webVars, moreVars,
                 rectangles, mask_color, mask, masked_img, stats>>

InitMask ==
  /\ MoreIdle
  /\ FaceIdle
  /\ ParseIdle
  /\ WebIdle
  /\ \E file \in Pictures : disk = [path \in {"in", "out"} |->
                                     IF path = "in" THEN file ELSE NoFile]
  /\ rectangles \in SeqsUpTo(MaskRects, MaxRects)
  /\ mask_color \in {Black, Red}
  /\ mask \in {NoMask} \cup CallerMasks
  /\ masked_img = NoFile
  /\ stats = NoStats

NextMask ==
  \/ CallCreateMask
  \/ CallApplyMask
  \/ CallGetMaskStatistics
  \/ CreateMaskedImageFile

SpecMask == InitMask /\ [][NextMask]_vars

(* ================= the /compare handler (app.py) ================= *)
\* line 48
ALLOWED_EXTENSIONS == {"png", "jpg", "jpeg", "gif", "bmp"}

\* the file names a client sends
UploadNames == {"", "a.jpg", "../a.jpg", "b.jpg", "masked_a.jpg", "notes.txt"}

\* lines 67-77: the text after the last dot, when there is a name before it
Extension(filename) ==
  IF filename = "" THEN "" ELSE IF filename = "notes.txt" THEN "txt" ELSE "jpg"
AllowedFile(filename) == filename # "" /\ Extension(filename) \in ALLOWED_EXTENSIONS

\* lines 116-117: secure_filename drops the path of a name
SecureFilename(filename) == IF filename = "../a.jpg" THEN "a.jpg" ELSE filename

\* lines 142-143
MaskedName(filename) == "masked_" \o filename

StoredNames ==
  {SecureFilename(n) : n \in UploadNames}
    \cup {MaskedName(SecureFilename(n)) : n \in UploadNames}

\* an upload that is not an image
Undecodable == [w |-> 0, h |-> 0, mode |-> "bytes", px |-> <<>>]
Decodable(file) == file.mode \in {"RGB", "L"}

\* the rectangle fields of the form
FormJsons ==
  {NoJson,
   [kind |-> "not json", items |-> <<>>],
   JList(<<Obj(25, 25, 50, 50)>>),
   JList(<<Obj(0, 0, 50, 100), Obj(80, 20, 30, 40)>>),
   JList(<<Obj(100, 100, 50, 50)>>)}

Forms ==
  [filename1 : UploadNames, filename2 : UploadNames,
   file1 : {Picture(3, 2, "RGB", 0)},
   file2 : {Picture(4, 3, "L", 1), Undecodable},
   rectangles1 : FormJsons, rectangles2 : FormJsons]

\* what the comparator may answer
CompareOutcomes ==
  {<<TRUE, "Distance: 0.234, Confidence: 48.0%">>,
   <<FALSE, "Distance: 1.020, Confidence: 0.0%">>,
   <<FALSE, "Face detection failed">>}

\* line 176: 'Distance: 0.' in details
HasDistanceZero(details) == details = "Distance: 0.234, Confidence: 48.0%"

\* (mutant) the rectangles of image 2 come first
PrimaryRectangles_Second(r1, r2) == IF r2 # <<>> THEN r2 ELSE r1
\* line 150
PrimaryRectangles(r1, r2) == IF r1 # <<>> THEN r1 ELSE r2

\* image_masking.py lines 176-179: the image create_masked_image_file saves
CreateMaskedFile(file, rects, color) ==
  ApplyMaskToImage(file, CreateMaskFromRectangles(file, rects), color)

\* lines 94-112: a missing name or a refused type ends the request
WebReject ==
  /\ wpc = "received"
  /\ ~(AllowedFile(form.filename1) /\ AllowedFile(form.filename2))
  /\ wpc' = "redirected"
  /\ UNCHANGED <<faceVars, maskerVars, moreVars, form, uploads, rectangles1, rectangles2,
                 comparison_filepath, mask_calls, compare_call, result_data>>

\* lines 114-132: both uploads are saved, then both form fields parsed
WebSave ==
  /\ wpc = "received"
  /\ AllowedFile(form.filename1) /\ AllowedFile(form.filename2)
  /\ uploads' = [[uploads EXCEPT ![SecureFilename(form.filename1)] = form.file1]
                   EXCEPT ![SecureFilename(form.filename2)] = form.file2]
  /\ rectangles1' = ParseRectangleData(form.rectangles1).value
  /\ rectangles2' = ParseRectangleData(form.rectangles2).value
  /\ wpc' = "saved"
  /\ UNCHANGED <<faceVars, maskerVars, moreVars, form, comparison_filepath, mask_calls,
                 compare_call, result_data>>

\* lines 134-157: the masked copies, when there are rectangles
WebMask ==
  /\ wpc = "saved"
  /\ LET filename1 == SecureFilename(form.filename1)
         filename2 == SecureFilename(form.filename2)
         primary_rectangles == PrimaryRectangles(rectangles1, rectangles2)
         in1 == uploads[filename1]
         out1 == CreateMaskedFile(in1, primary_rectangles, Black)
         uploads1 == [uploads EXCEPT ![MaskedName(filename1)] = out1]
         in2 == uploads1[filename2]
         out2 == CreateMaskedFile(in2, primary_rectangles, Black)
         uploads2 == [uploads1 EXCEPT ![MaskedName(filename2)] = out2]
         call1 == [input |-> filename1, output |-> MaskedName(filename1),
                   rectangles |-> primary_rectangles, read |-> in1, written |-> out1]
         call2 == [input |-> filename2, output |-> MaskedName(filename2),
                   rectangles |-> primary_rectangles, read |-> in2, written |-> out2]
     IN  IF rectangles1 = <<>> /\ rectangles2 = <<>>
           THEN /\ comparison_filepath' = <<filename1, filename2>>
                /\ wpc' = "masked"
                /\ UNCHANGED <<uploads, mask_calls>>
         ELSE IF ~Decodable(in1)
           THEN /\ wpc' = "redirected"
                /\ UNCHANGED <<uploads, mask_calls, comparison_filepath>>
         ELSE IF ~Decodable(in2)
           THEN /\ uploads' = uploads1
                /\ mask_calls' = <<call1>>
                /\ wpc' = "redirected"
                /\ UNCHANGED comparison_filepath
         ELSE /\ uploads' = uploads2
              /\ mask_calls' = <<call1, call2>>
              /\ comparison_filepath' = <<MaskedName(filename1), MaskedName(filename2)>>
              /\ wpc' = "masked"
  /\ UNCHANGED <<faceVars, maskerVars, moreVars, form, rectangles1, rectangles2,
                 compare_call, result_data>>

\* lines 159-161: compare_faces reads the two files; a file that cannot be
\* loaded makes it raise, and the handler redirects (lines 192-195)
WebCompare ==
  /\ wpc = "masked"
  /\ LET read1 == uploads[comparison_filepath[1]]
         read2 == uploads[comparison_filepath[2]]
     IN  IF Decodable(read1) /\ Decodable(read2)
           THEN /\ \E o \in CompareOutcomes :
                     compare_call' = [paths |-> comparison_filepath,
                                      read |-> <<read1, read2>>,
                                      is_same_person |-> o[1], details |-> o[2]]
                /\ wpc' = "compared"
           ELSE /\ wpc' = "redirected"
                /\ UNCHANGED compare_call
  /\ UNCHANGED <<faceVars, maskerVars, moreVars, form, uploads, rectangles1, rectangles2,
                 comparison_filepath, mask_calls, result_data>>

\* lines 163-190: the statistics and the rendered result
WebRespond ==
  /\ wpc = "compared"
  /\ LET filename1 == SecureFilename(form.filename1)
         mask_applied == mask_calls # <<>>
         primary_rectangles == PrimaryRectangles(rectangles1, rectangles2)
     IN  result_data' =
           [image1 |-> filename1,
            image2 |-> SecureFilename(form.filename2),
            is_same_person |-> compare_call.is_same_person,
            details |-> compare_call.details,
            confidence |-> IF HasDistanceZero(compare_call.details)
                             THEN "High" ELSE "Medium",
            mask_applied |-> mask_applied,
            mask_stats |-> IF mask_applied
                             THEN GetMaskStatistics(
                                    CreateMaskFromRectangles(uploads[filename1],
                                                             primary_rectangles))
                             ELSE NoStats,
            rectangles_count |-> IF rectangles1 # <<>> THEN Len(rectangles1)
                                                       ELSE Len(rectangles2)]
  /\ wpc' = "done"
  /\ UNCHANGED <<faceVars, maskerVars, moreVars, form, uploads, rectangles1, rectangles2,
                 comparison_filepath, mask_calls, compare_call>>

InitWeb ==
  /\ MoreIdle
  /\ FaceIdle
  /\ ParseIdle
  /\ MaskIdle
  /\ form \in Forms
  /\ uploads = [n \in StoredNames |-> NoFile]
  /\ wpc = "received"
  /\ WebLocals

NextWeb ==
  \/ WebReject
  \/ WebSave
  \/ WebMask
  \/ WebCompare
  \/ WebRespond

SpecWeb == InitWeb /\ [][NextWeb]_vars

(* ============ preprocess_image_variations (face_compare.py) ============ *)
\* the image files the function is given: missing, or w x h pixels
Sides == {1, 2, 600, 1199, 1200, 1201, 2000, 2400}
SourceImages == {Missing} \cup {[ok |-> TRUE, w |-> w, h |-> h] : w, h \in Sides}

\* lines 40, 51, 59
Exceeds(w, h) == Max(w, h) > ResizeLimit

\* lines 41-42: int(side * (1200 / longest)), computed exactly
Scaled(side, longest) == (side * ResizeLimit) \div longest

\* Image.resize (lines 43, 54, 65, 70): a size with a side below one pixel
\* is refused with a ValueError
Resizable(w, h) == w >= 1 /\ h >= 1

\* one (label, array) pair: what was done to the loaded image, the factor
\* of an enhancement in hundredths, and the size of the array
Variation(label, op, factor, w, h) ==
  [label |-> label, op |-> op, factor |-> factor, w |-> w, h |-> h]

\* lines 50-55 and 58-66: the enhanced copy keeps the size of the image and
\* is resized when that exceeds the limit
Enhanced(label, op, factor, w, h) ==
  IF Exceeds(w, h)
    THEN Variation(label, op, factor, Scaled(w, Max(w, h)), Scaled(h, Max(w, h)))
    ELSE Variation(label, op, factor, w, h)

\* lines 29-75
PreprocessImageVariations(file) ==
  IF ~file.ok THEN Exc("load error")
  ELSE IF Exceeds(file.w, file.h)
    THEN LET new_w == Scaled(file.w, Max(file.w, file.h))
             new_h == Scaled(file.h, Max(file.w, file.h))
         IN  IF Resizable(new_w, new_h)
               THEN Ok(<<Variation("Original resized", "resize", One, new_w, new_h)>>)
               ELSE Exc("ValueError")
  ELSE IF Resizable(file.w \div 2, file.h \div 2)
    THEN Ok(<<Variation("Original", "none", One, file.w, file.h),
              Enhanced("Enhanced contrast", "contrast", 130, file.w, file.h),
              Enhanced("Brightened", "brightness", 120, file.w, file.h),
              Variation("Smaller", "resize", One, file.w \div 2, file.h \div 2)>>)
    ELSE Exc("ValueError")

CallPreprocess ==
  /\ pre_ret = NotCalled
  /\ pre_ret' = PreprocessImageVariations(image_file)
  /\ UNCHANGED <<faceVars, maskerVars, webVars, concVars, image_file, cascade,
                 good_faces, match_args, match_ret, reparsed>>

InitPreprocess ==
  /\ FaceIdle
  /\ ParseIdle
  /\ MaskIdle
  /\ WebIdle
  /\ ConcIdle
  /\ image_file \in SourceImages
  /\ pre_ret = NotCalled
  /\ cascade = NoCascade
  /\ good_faces = NotCalled
  /\ match_args = NoMatchArgs
  /\ match_ret = NotCalled
  /\ reparsed = NotCalled

NextPreprocess == CallPreprocess

SpecPreprocess == InitPreprocess /\ [][NextPreprocess]_vars

(* ============ detect_with_opencv_fallback (face_compare.py) ============ *)
\* detections at and around the two ends of the accepted aspect ratios
Box(x, y, w, h) == [x |-> x, y |-> y, w |-> w, h |-> h]
Boxes ==
  {BoxSquare, BoxTall, BoxWide, Box(5, 7, 80, 100), Box(30, 40, 80, 101),
   Box(0, 60, 126, 100), Box(200, 0, 100, 80), Box(50, 50, 400, 400)}

\* one call: cvtColor raises, or detectMultiScale raises, or it reports
\* up to MaxFaces detections
CascadeCalls ==
  {[raised |-> TRUE, at |-> at, boxes |-> <<>>] : at \in {"cvtColor", "detectMultiScale"}}
    \cup {[raised |-> FALSE, at |-> "none", boxes |-> b] : b \in SeqsUpTo(Boxes, MaxFaces)}

\* lines 77-104
CallDetectFallback ==
  /\ good_faces = NotCalled
  /\ good_faces' = Ok(DetectWithOpencvFallback(cascade))
  /\ UNCHANGED <<faceVars, maskerVars, webVars, concVars, image_file, pre_ret,
                 cascade, match_args, match_ret, reparsed>>

InitCascade ==
  /\ FaceIdle
  /\ ParseIdle
  /\ MaskIdle
  /\ WebIdle
  /\ ConcIdle
  /\ image_file = Missing
  /\ pre_ret = NotCalled
  /\ cascade \in CascadeCalls
  /\ good_faces = NotCalled
  /\ match_args = NoMatchArgs
  /\ match_ret = NotCalled
  /\ reparsed = NotCalled

NextCascade == CallDetectFallback

SpecCascade == InitCascade /\ [][NextCascade]_vars

(* ============ two /compare requests at the same time (app.py) ============ *)
\* the requests: two uploads with different names and different pictures,
\* and the two rectangle fields
ConcNames == {<<"a.jpg", "b.jpg">>, <<"b.jpg", "a.jpg">>, <<"c.jpg", "d.jpg">>}
ConcRequests(names, p1, p2) ==
  {[filename1 |-> n[1], filename2 |-> n[2], file1 |-> p1, file2 |-> p2,
    rectangles1 |-> j1, rectangles2 |-> j2] :
     n \in names,
     j1 \in {NoJson, JList(<<Obj(25, 25, 50, 50)>>)},
     j2 \in {NoJson, JList(<<Obj(0, 0, 50, 100), Obj(80, 20, 30, 40)>>)}}
ConcFolderNames ==
  UNION {{n[1], n[2], MaskedName(n[1]), MaskedName(n[2])} : n \in ConcNames}

\* lines 131-132 and 150: the rectangles a request masks with
RequestRectangles(req) ==
  PrimaryRectangles(ParseRectangleData(req.rectangles1).value,
                    ParseRectangleData(req.rectangles2).value)

\* lines 135-136 and 155-156: the two paths a request hands to compare_faces
ComparisonPaths(req) ==
  IF RequestRectangles(req) = <<>>
    THEN <<SecureFilename(req.filename1), SecureFilename(req.filename2)>>
    ELSE <<MaskedName(SecureFilename(req.filename1)),
           MaskedName(SecureFilename(req.filename2))>>

\* line 122: file1.save(filepath1)
ConcSave1(r) ==
  /\ rpc[r] = "received"
  /\ folder' = [folder EXCEPT ![SecureFilename(requests[r].filename1)] = requests[r].file1]
  /\ rpc' = [rpc EXCEPT ![r] = "saved1"]
  /\ UNCHANGED <<faceVars, maskerVars, webVars, unitVars, requests, loaded>>

\* line 123: file2.save(filepath2)
ConcSave2(r) ==
  /\ rpc[r] = "saved1"
  /\ folder' = [folder EXCEPT ![SecureFilename(requests[r].filename2)] = requests[r].file2]
  /\ rpc' = [rpc EXCEPT ![r] = "saved"]
  /\ UNCHANGED <<faceVars, maskerVars, webVars, unitVars, requests, loaded>>

\* lines 140-152: without rectangles the originals are compared; otherwise
\* the masked copy of filepath1 is made from what is at filepath1 now
ConcMask1(r) ==
  /\ rpc[r] = "saved"
  /\ LET filename1 == SecureFilename(requests[r].filename1) IN
       IF RequestRectangles(requests[r]) = <<>>
         THEN /\ rpc' = [rpc EXCEPT ![r] = "masked"]
              /\ folder' = folder
         ELSE /\ rpc' = [rpc EXCEPT ![r] = "masked1"]
              /\ folder' = [folder EXCEPT ![MaskedName(filename1)] =
                              CreateMaskedFile(folder[filename1],
                                               RequestRectangles(requests[r]), Black)]
  /\ UNCHANGED <<faceVars, maskerVars, webVars, unitVars, requests, loaded>>

\* line 153
ConcMask2(r) ==
  /\ rpc[r] = "masked1"
  /\ LET filename2 == SecureFilename(requests[r].filename2) IN
       folder' = [folder EXCEPT ![MaskedName(filename2)] =
                    CreateMaskedFile(folder[filename2],
                                     RequestRectangles(requests[r]), Black)]
  /\ rpc' = [rpc EXCEPT ![r] = "masked"]
  /\ UNCHANGED <<faceVars, maskerVars, webVars, unitVars, requests, loaded>>

\* line 161, face_compare.py line 182: the comparator loads its first image
ConcLoad1(r) ==
  /\ rpc[r] = "masked"
  /\ loaded' = [loaded EXCEPT ![r] = <<folder[ComparisonPaths(requests[r])[1]]>>]
  /\ rpc' = [rpc EXCEPT ![r] = "loaded1"]
  /\ UNCHANGED <<faceVars, maskerVars, webVars, unitVars, requests, folder>>

\* face_compare.py line 185: and its second image
ConcLoad2(r) ==
  /\ rpc[r] = "loaded1"
  /\ loaded' = [loaded EXCEPT ![r] = Append(@, folder[ComparisonPaths(requests[r])[2]])]
  /\ rpc' = [rpc EXCEPT ![r] = "compared"]
  /\ UNCHANGED <<faceVars, maskerVars, webVars, unitVars, requests, folder>>

InitConc ==
  /\ FaceIdle
  /\ ParseIdle
  /\ MaskIdle
  /\ WebIdle
  /\ UnitIdle
  /\ \E q1 \in ConcRequests({<<"a.jpg", "b.jpg">>, <<"b.jpg", "a.jpg">>},
                            Picture(3, 2, "RGB", 0), Picture(3, 2, "RGB", 1)),
        q2 \in ConcRequests(ConcNames, Picture(4, 3, "L", 1), Picture(4, 3, "RGB", 0)) :
       requests = <<q1, q2>>
  /\ rpc = <<"received", "received">>
  /\ folder = [n \in ConcFolderNames |-> NoFile]
  /\ loaded = <<<<>>, <<>>>>

NextConc ==
  \E r \in 1..2 :
    \/ ConcSave1(r)
    \/ ConcSave2(r)
    \/ ConcMask1(r)
    \/ ConcMask2(r)
    \/ ConcLoad1(r)
    \/ ConcLoad2(r)

SpecConc == InitConc /\ [][NextConc]_vars

(* ============ validate_rectangles_match (image_masking.py) ============ *)
\* (mutant) a difference equal to the tolerance is a mismatch
Differs_OrEqual(a, b, tol) == Abs(a - b) >= tol
\* line 234
Differs(a, b, tol) == Abs(a - b) > tol

\* lines 233-235: the loop over the keys returns at the first that differs
RectDiffers(r1, r2, tol) ==
  \E k \in 1..Len(KeyOrder) : Differs(r1[KeyOrder[k]], r2[KeyOrder[k]], tol)

\* lines 232-237: the loop over zip(rectangles1, rectangles2)
RECURSIVE PairsMatch(_, _, _)
PairsMatch(rs1, rs2, tol) ==
  IF rs1 = <<>> \/ rs2 = <<>> THEN TRUE
  ELSE IF RectDiffers(Head(rs1), Head(rs2), tol) THEN FALSE
  ELSE PairsMatch(Tail(rs1), Tail(rs2), tol)

\* lines 229-237
ValidateRectanglesMatch(rs1, rs2, tol) ==
  IF Len(rs1) # Len(rs2) THEN FALSE ELSE PairsMatch(rs1, rs2, tol)

\* the rectangles compared, in hundredths, and the tolerances (0.01 is the
\* default of line 216)
MatchRects ==
  {R(10, 20, 30, 40), R(11, 20, 30, 40), R(10, 20, 30, 42), R(11, 19, 31, 39),
   R(50, 60, 20, 10)}
MatchTolerances == {0, 1, 5}

CallValidateRectanglesMatch ==
  /\ match_ret.exc = "not called"
  /\ match_ret' = Ok(ValidateRectanglesMatch(match_args.rectangles1,
                                             match_args.rectangles2,
                                             match_args.tolerance))
  /\ UNCHANGED <<faceVars, maskerVars, webVars, concVars, image_file, pre_ret,
                 cascade, good_faces, match_args, reparsed>>

InitValidate ==
  /\ FaceIdle
  /\ ParseIdle
  /\ MaskIdle
  /\ WebIdle
  /\ ConcIdle
  /\ image_file = Missing
  /\ pre_ret = NotCalled
  /\ cascade = NoCascade
  /\ good_faces = NotCalled
  /\ match_args \in [rectangles1 : SeqsUpTo(MatchRects, MaxRects),
                     rectangles2 : SeqsUpTo(MatchRects, MaxRects),
                     tolerance : MatchTolerances]
  /\ match_ret = NotCalled
  /\ reparsed = NotCalled

NextValidate == CallValidateRectanglesMatch

SpecValidate == InitValidate /\ [][NextValidate]_vars

(* ======================= the claims ======================= *)

Last(s) == s[Len(s)]
IsDetect(c) == c.fn \in {"face_locations", "detect_with_opencv_fallback"}
IsEncode(c) == c.fn = "face_encodings"
Success(c) == IsEncode(c) /\ ~c.raised /\ c.hit
DetectCalls == SelectSeq(calls, IsDetect)
IsHogDetect(c) == c.fn = "face_locations" /\ c.strategy = "HOG"
HogDetectCalls == SelectSeq(calls, IsHogDetect)
\* the encode call of the current image has ended and its log is still there
EncodeEnded == pc \in {"call2", "check", "raised"} /\ calls # <<>>

\* C1: the fast detector (upsample 1) is run on the variations in the order
\* the generator produced them, one call per variation and before any other
\* strategy; get_face_encodings returns at the first variation that gives
\* regions and a non-empty embedding list, with those embeddings and a
\* message naming "HOG" and that variation's label; the successful encoder
\* call is the last call of the log, so no detector or encoder call follows.
C1_HogFirstSuccessReturns ==
  /\ \A p \in 1..Len(HogDetectCalls) : HogDetectCalls[p].var = p
  /\ \A p \in 1..Len(calls) :
       calls[p].strategy # "HOG" =>
         \A q \in 1..Len(calls) : calls[q].strategy = "HOG" => q < p
  /\ \A p \in 1..Len(calls) :
       (Success(calls[p]) /\ calls[p].strategy = "HOG") =>
         /\ p = Len(calls)
         /\ calls[p].var = Len(HogDetectCalls)
         /\ \A q \in 1..(p - 1) : ~Success(calls[q])
         /\ estate[img] = "returned"
         /\ Truthy(encodings[img])
         /\ msg[img] = FoundMsg(Len(encodings[img].items), "HOG",
                                variations[calls[p].var])
  /\ (EncodeEnded /\ estate[img] = "returned" /\ Last(calls).strategy = "HOG") =>
       Success(Last(calls))

\* C1 witness: the call returned from the third variation
C1_Witness ==
  /\ EncodeEnded
  /\ estate[img] = "returned"
  /\ Success(Last(calls))
  /\ Last(calls).strategy = "HOG"
  /\ Last(calls).var = 3
  /\ msg[img][6] = "Brightened"

IsCascadeCall(c) == c.fn = "detect_with_opencv_fallback"
IsCnnDetect(c) == c.fn = "face_locations" /\ c.strategy = "CNN"
IsHog2Detect(c) == c.fn = "face_locations" /\ c.strategy = "HOG 2x"

\* C2: whenever steps 1 and 2 end without embeddings, the accurate (CNN)
\* detector is run on the last variation before the cascade detector:
\* every cascade call of the log is preceded by a CNN detector call.
C2_AccurateBeforeCascade ==
  \A p \in 1..Len(calls) :
    IsCascadeCall(calls[p]) =>
      \E q \in 1..(p - 1) : IsCnnDetect(calls[q]) /\ calls[q].var = Len(variations)

\* C3: the upsample-2 retry, the accurate detector and the cascade detector
\* are each called at most once, on the last variation only, and only after
\* the fast upsample-1 detector was tried on every variation without a
\* success; one encode call makes at most Len(variations) + 3 detector calls.
C3_LateStrategiesOnceOnLast ==
  /\ Len(SelectSeq(calls, IsHog2Detect)) <= 1
  /\ Len(SelectSeq(calls, IsCnnDetect)) <= 1
  /\ Len(SelectSeq(calls, IsCascadeCall)) <= 1
  /\ \A p \in 1..Len(calls) :
       (IsDetect(calls[p]) /\ ~IsHogDetect(calls[p])) =>
         /\ calls[p].var = Len(variations)
         /\ \A v \in 1..Len(variations) :
              \E q \in 1..(p - 1) : IsHogDetect(calls[q]) /\ calls[q].var = v
         /\ \A q \in 1..(p - 1) : ~Success(calls[q])
  /\ Len(DetectCalls) <= Len(variations) + 3

\* C3 witness: a call that made Len(variations) + 3 detector calls on a
\* four-variation image
C3_Witness ==
  /\ Len(variations) = 4
  /\ Len(DetectCalls) = Len(variations) + 3

\* C4: an exception of a detector or encoder call of any strategy does not
\* leave get_face_encodings: the call never ends raised after a call of
\* its log raised.
C4_StrategyErrorsCaught ==
  (calls # <<>> /\ \E p \in 1..Len(calls) : calls[p].raised) =>
    estate[img] # "raised"

\* C5: when the encode call has ended and no call of its log gave a usable
\* result (each detector found nothing, or the encoder gave no embedding),
\* the call returned (None, "No faces detected with any method or image
\* variation") and did not raise.
C5_AllFailReturnsNone ==
  (EncodeEnded /\ \A p \in 1..Len(calls) : ~calls[p].raised /\ ~Success(calls[p])) =>
    /\ estate[img] = "returned"
    /\ encodings[img] = None
    /\ msg[img] = <<"No faces detected with any method or image variation">>
    /\ pc # "raised"

\* C5 witness: the second image of a comparison, four variations, every
\* strategy tried without a face
C5_Witness ==
  /\ pc = "check"
  /\ Len(variations) = 4
  /\ encodings[2] = None
  /\ \A p \in 1..Len(calls) : ~calls[p].raised /\ ~calls[p].hit
  /\ Len(calls) = 6

BothReturned == estate[1] = "returned" /\ estate[2] = "returned"

E1 == encodings[1].items
E2 == encodings[2].items
Pairs == (1..Len(E1)) \X (1..Len(E2))
Compared == pc \in {"final", "done"} /\ Truthy(encodings[1]) /\ Truthy(encodings[2])

\* C8: after the loops, face_distance was called exactly once on every
\* pair of E1 x E2; matches holds exactly the pairs with distance <=
\* tolerance; best_distance is the least distance of all pairs; and the
\* returned is_match is true iff some pair has distance <= tolerance.
C8_AllPairsAnyMatch ==
  Compared =>
    /\ Len(dcalls) = Len(E1) * Len(E2)
    /\ {dcalls[p] : p \in 1..Len(dcalls)} = Pairs
    /\ {matches[p] : p \in 1..Len(matches)} =
         {<<pr[1], pr[2], Abs(E1[pr[1]] - E2[pr[2]]) * EmbStep>> :
            pr \in {q \in Pairs : Abs(E1[q[1]] - E2[q[2]]) * EmbStep <= tolerance}}
    /\ \E pr \in Pairs : best_distance = Abs(E1[pr[1]] - E2[pr[2]]) * EmbStep
    /\ \A pr \in Pairs : best_distance <= Abs(E1[pr[1]] - E2[pr[2]]) * EmbStep
    /\ pc = "done" =>
         /\ ret.kind = "returned"
         /\ ret.is_match <=>
              \E pr \in Pairs : Abs(E1[pr[1]] - E2[pr[2]]) * EmbStep <= tolerance

\* C8 witness: two faces on each side, the first face of image 1 matches
\* nothing and the second one does
C8_Witness ==
  /\ pc = "done"
  /\ Compared
  /\ Len(E1) = 2
  /\ Len(E2) = 2
  /\ ret.is_match
  /\ Len(matches) < 4
  /\ matches[1][1] = 2
  /\ best_distance > 0

\* C9: confidence = max(0, (tolerance - best_distance) / tolerance * 100)
\* (in thousandths of a percent, rounded down); two sets holding the same
\* single vector give is_match, best_distance 0 and confidence 100; and
\* best_distance >= tolerance gives confidence 0.
C9_ConfidenceFormula ==
  (pc = "done" /\ Compared) =>
    /\ confidence >= 0
    /\ best_distance < tolerance =>
         /\ confidence * tolerance <= (tolerance - best_distance) * 100000
         /\ (tolerance - best_distance) * 100000 < (confidence + 1) * tolerance
    /\ best_distance >= tolerance => confidence = 0
    /\ (Len(E1) = 1 /\ E1 = E2) =>
         ret.is_match /\ best_distance = 0 /\ confidence = 100000

\* C9 witness: both images gave the same single vector
C9_Witness ==
  /\ pc = "done"
  /\ Compared
  /\ Len(E1) = 1
  /\ E1 = E2
  /\ confidence = 100000

DistanceTexts == {Fmt3(Abs(a - b) * EmbStep) : a, b \in Emb}
HasDistance(s) ==
  \E p \in 1..(Len(s) - 1) : s[p] = "Distance: " /\ s[p + 1] \in DistanceTexts

HasMatchCount(s) ==
  \E k \in 1..Len(s) - 1 :
    s[k] = ToString(Len(matches)) /\ s[k + 1] = " matching face pair(s) found:"
HasMoreSuffix(s) ==
  \E k \in 1..Len(s) - 2 :
    s[k] = "... and " /\ s[k + 1] = ToString(Len(matches) - ListedMax)
      /\ s[k + 2] = " more"
C11_SummaryHasMatchCount ==
  (ret.kind = "returned" /\ ret.is_match) =>
    /\ HasMatchCount(ret.summary)
    /\ Len(matches) > ListedMax => HasMoreSuffix(ret.summary)
\* the report is printed, with the suffix when four pairs match
C11_PrintedOnly ==
  (ret.kind = "returned" /\ ret.is_match) =>
    /\ HasMatchCount(printed)
    /\ Len(matches) > ListedMax => HasMoreSuffix(printed)
    /\ Len(printed) <= 3 + ListedMax + 3
C11_FourMatches ==
  ~(ret.kind = "returned" /\ ret.is_match /\ Len(matches) > ListedMax)

(* ---- parse_rectangle_data ---- *)
RECURSIVE Flatten(_)
Flatten(ss) == IF ss = <<>> THEN <<>> ELSE Head(ss) \o Flatten(Tail(ss))

InputItems == rectangle_json.items
Fields(el) ==
  [x |-> el.f.x.v, y |-> el.f.y.v, width |-> el.f.width.v, height |-> el.f.height.v]
\* an object whose fields, as far as it has them, are numbers
IsRectObject(el) == el.kind = "object" /\ \A k \in el.keys : el.f[k].num
RectList(json) ==
  json.kind = "list" /\ \A k \in 1..Len(json.items) : IsRectObject(json.items[k])
FourNumeric(el) == IsRectObject(el) /\ el.keys = Keys
InRange(r) ==
  /\ 0 <= r.x /\ 0 <= r.y /\ r.width > 0 /\ r.height > 0
  /\ r.x + r.width <= One /\ r.y + r.height <= One
ValidRectangle(el) == FourNumeric(el) /\ InRange(Fields(el))
\* what the element gives when it is the only one of its list
Alone(el) == ParseRectangleData(JList(<<el>>)).value

Clamped13(r) ==
  LET x == IF r.x < 0 THEN 0 ELSE IF r.x > One THEN One ELSE r.x
      y == IF r.y < 0 THEN 0 ELSE IF r.y > One THEN One ELSE r.y
  IN  [x |-> x, y |-> y,
       width |-> IF r.width <= One - x THEN r.width ELSE One - x,
       height |-> IF r.height <= One - y THEN r.height ELSE One - y]
Claimed13(el) ==
  IF Clamped13(Fields(el)).width <= 0 \/ Clamped13(Fields(el)).height <= 0
    THEN <<>> ELSE <<Clamped13(Fields(el))>>
C13_ClampOrDrop ==
  /\ (parsed # NotCalled /\ RectList(rectangle_json)) =>
       /\ parsed = Ok(Flatten([k \in 1..Len(InputItems) |->
                       IF FourNumeric(InputItems[k]) THEN Claimed13(InputItems[k])
                       ELSE Alone(InputItems[k])]))
       /\ \A m \in 1..Len(parsed.value) : InRange(parsed.value[m])
  /\ Alone(Obj(80, 20, 30, 40)) = <<[x |-> 80, y |-> 20, width |-> 20, height |-> 40]>>
  /\ Alone(Obj(100, 100, 50, 50)) = <<>>
\* x = 0.8 with width 0.3 came back with width 0.2, and x = 1.0 was dropped
C13_Witness ==
  /\ parsed # NotCalled /\ RectList(rectangle_json)
  /\ Len(InputItems) = 2
  /\ FourNumeric(InputItems[1]) /\ FourNumeric(InputItems[2])
  /\ InputItems[1].f.x.v = 80 /\ InputItems[1].f.width.v = 30
  /\ InputItems[2].f.x.v = One
  /\ Len(parsed.value) = 1 /\ parsed.value[1].width = 20

\* C14: an object that lacks one of x, y, width, height is left out, and the
\* result is what the list without that object gives: every other rectangle
\* is returned as before.
Lacking(el) == el.kind = "object" /\ el.keys # Keys
NotLacking(el) == ~Lacking(el)
C14_LackingFieldOnlySkipsThatOne ==
  (parsed # NotCalled /\ rectangle_json.kind = "list") =>
    /\ parsed = ParseRectangleData(JList(SelectSeq(InputItems, NotLacking)))
    /\ Len(parsed.value) <= Len(SelectSeq(InputItems, NotLacking))
    /\ RectList(rectangle_json) =>
         \A k \in 1..Len(InputItems) :
           ValidRectangle(InputItems[k]) =>
             \E m \in 1..Len(parsed.value) : parsed.value[m] = Fields(InputItems[k])
C14_Witness ==
  /\ parsed # NotCalled /\ rectangle_json.kind = "list"
  /\ Len(InputItems) = 2
  /\ Lacking(InputItems[1]) /\ InputItems[1].keys # {}
  /\ ValidRectangle(InputItems[2])
  /\ parsed.value = <<Fields(InputItems[2])>>

\* C15: for an empty string, text that is not JSON, JSON that is not a list
\* of objects, or a field of a non-numeric type, the result is the empty list
\* and nothing is raised.
Malformed(json) ==
  \/ json.kind # "list"
  \/ \E k \in 1..Len(json.items) : ~IsRectObject(json.items[k])
C15_MalformedGivesEmptyList ==
  (parsed # NotCalled /\ Malformed(rectangle_json)) => parsed = Ok(<<>>)
\* the part of C15 that holds: no input makes the call raise
C15_NeverRaises == parsed.exc \in {"not called", "none"}

(* ---- masks ---- *)
Source == disk["in"]
Created == mask.by = "create_mask_from_rectangles"
NonNegOrigin(rects) == \A k \in 1..Len(rects) : rects[k].x >= 0 /\ rects[k].y >= 0

\* the spans as C16 states them
X1c(r, W) == Min((r.x * W) \div One, W - 1)
X2c(r, W) == Max(X1c(r, W) + 1, Min(((r.x + r.width) * W) \div One, W))
Y1c(r, H) == Min((r.y * H) \div One, H - 1)
Y2c(r, H) == Max(Y1c(r, H) + 1, Min(((r.y + r.height) * H) \div One, H))
ClaimedOn(rects, W, H, p) ==
  \E k \in 1..Len(rects) :
    /\ X1c(rects[k], W) <= p[1] /\ p[1] < X2c(rects[k], W)
    /\ Y1c(rects[k], H) <= p[2] /\ p[2] < Y2c(rects[k], H)

AllZero(rects) ==
  rects # <<>> /\ \A k \in 1..Len(rects) : rects[k] = R(0, 0, 0, 0)
C17_ZeroRectanglesRoundTrip ==
  (Created /\ AllZero(rectangles) /\ masked_img # NoFile) =>
    masked_img.px = ConvertRGB(Source).px

\* C18: the image apply_mask_to_image returns has the dimensions of the
\* source; where the mask is true the pixel is the fill colour, elsewhere it
\* is the source pixel (as RGB); a rectangle over the whole image gives an
\* image of the fill colour only; the call leaves the files alone.
SameShape == mask.w = Source.w /\ mask.h = Source.h
C18_Painted ==
  masked_img # NoFile =>
    /\ masked_img.w = Source.w /\ masked_img.h = Source.h
    /\ SameShape =>
         \A p \in Pixels(Source.w, Source.h) :
           masked_img.px[p] = IF mask.on[p] THEN mask_color ELSE ToRGB(Source.px[p])
    /\ (Created /\ rectangles = <<R(0, 0, One, One)>>) =>
         \A p \in Pixels(Source.w, Source.h) : masked_img.px[p] = mask_color
C18_ApplyPaintsOnlyTheMask ==
  [](C18_Painted) /\ [][masked_img' # masked_img => disk' = disk]_vars
\* a grey-level source painted red in part
C18_Witness ==
  /\ masked_img # NoFile /\ SameShape
  /\ Source.mode = "L" /\ mask_color = Red
  /\ \E p, q \in Pixels(Source.w, Source.h) :
       /\ mask.on[p] /\ masked_img.px[p] = Red
       /\ ~mask.on[q] /\ masked_img.px[q] = <<128, 128, 128>>

\* C19: for every mask, also one without pixels, masked_pixels +
\* unmasked_pixels = total_pixels and mask_percentage + unmasked_percentage
\* = 100.
PercentagesSum(s) ==
  s.mask_percentage.num * s.unmasked_percentage.den
    + s.unmasked_percentage.num * s.mask_percentage.den
PercentagesAre100(s) ==
  PercentagesSum(s) = 100 * s.mask_percentage.den * s.unmasked_percentage.den
Supplied1 == ParseRectangleData(form.rectangles1).value
Supplied2 == ParseRectangleData(form.rectangles2).value
Canonical == IF Supplied1 # <<>> THEN Supplied1 ELSE Supplied2
Name1 == SecureFilename(form.filename1)
Name2 == SecureFilename(form.filename2)
DistinctPaths ==
  Cardinality({Name1, Name2, MaskedName(Name1), MaskedName(Name2)}) = 4
\* the image is the source with the canonical rectangles painted black
MaskedWith(written, source, rects) ==
  /\ written.w = source.w /\ written.h = source.h
  /\ \A p \in Pixels(source.w, source.h) :
       written.px[p] = IF ClaimedOn(rects, source.w, source.h, p)
                         THEN Black ELSE ToRGB(source.px[p])

\* C20: when rectangles1 parses to a non-empty set it is the canonical set,
\* whatever rectangles2 holds; otherwise a non-empty rectangles2 is; the
\* canonical set is rasterized and applied to the file of image 1 and to the
\* file of image 2, each at its own dimensions, and compare_faces is given
\* the two masked copies.
C20_CanonicalSetMasksBoth ==
  (wpc \in {"compared", "done"} /\ Canonical # <<>>) =>
    /\ Len(mask_calls) = 2
    /\ mask_calls[1].input = Name1 /\ mask_calls[1].output = MaskedName(Name1)
    /\ mask_calls[2].input = Name2 /\ mask_calls[2].output = MaskedName(Name2)
    /\ \A k \in 1..2 :
         /\ mask_calls[k].rectangles = Canonical
         /\ MaskedWith(mask_calls[k].written, mask_calls[k].read, Canonical)
    /\ compare_call.paths = <<MaskedName(Name1), MaskedName(Name2)>>
    /\ DistinctPaths =>
         /\ mask_calls[1].read = form.file1 /\ mask_calls[2].read = form.file2
         /\ compare_call.read = <<mask_calls[1].written, mask_calls[2].written>>
\* both fields hold rectangles, different ones, and the images differ in size
C20_Witness ==
  /\ wpc = "done" /\ DistinctPaths
  /\ Supplied1 # <<>> /\ Supplied2 # <<>> /\ Supplied1 # Supplied2
  /\ Len(Supplied2) = 2
  /\ result_data.mask_applied /\ result_data.rectangles_count = 1
  /\ compare_call.read[1].w = 3 /\ compare_call.read[2].w = 4

Labels(vs) == [k \in 1..Len(vs) |-> vs[k].label]
Ops(vs) == [k \in 1..Len(vs) |-> <<vs[k].op, vs[k].factor>>]
LongestSide(file) == Max(file.w, file.h)
Loadable == image_file.ok /\ pre_ret # NotCalled

\* C21: for a loadable image, preprocess_image_variations returns exactly one
\* variation, the downscaled "Original resized" image, when the longest side
\* is above 1200, and otherwise (1200 included) exactly four: the original,
\* the contrast-enhanced copy (1.3), the brightness-enhanced copy (1.2) and
\* the half-resolution copy, in this order.
C21_OneOrFourVariations ==
  Loadable =>
    /\ pre_ret.exc = "none"
    /\ IF LongestSide(image_file) > 1200
         THEN /\ Labels(pre_ret.value) = <<"Original resized">>
              /\ pre_ret.value[1].op = "resize"
              /\ Max(pre_ret.value[1].w, pre_ret.value[1].h) <= 1200
         ELSE /\ Ops(pre_ret.value) = <<<<"none", 100>>, <<"contrast", 130>>,
                                       <<"brightness", 120>>, <<"resize", 100>>>>
              /\ pre_ret.value[1].w = image_file.w
              /\ pre_ret.value[4].w = image_file.w \div 2
              /\ pre_ret.value[4].h = image_file.h \div 2

\* the same for images none of whose resized copies loses a side
KeepsSides ==
  IF LongestSide(image_file) > 1200
    THEN 1200 * image_file.w >= LongestSide(image_file)
           /\ 1200 * image_file.h >= LongestSide(image_file)
    ELSE image_file.w >= 2 /\ image_file.h >= 2
C21_OneOrFourWhenSidesKept == KeepsSides => C21_OneOrFourVariations
\* an image of 1200 x 2 pixels gave four variations
C21_FourAtTheLimit ==
  /\ Loadable /\ LongestSide(image_file) = 1200 /\ image_file.h = 2
  /\ Len(pre_ret.value) = 4

RatioInRange(b) == 80 * b.h <= 100 * b.w /\ 100 * b.w <= 125 * b.h
RegionOf(b) == <<b.y, b.x + b.w, b.y + b.h, b.x>>

\* C22: detect_with_opencv_fallback never raises; when the colour conversion
\* or the cascade classifier fails it returns the empty list; and every
\* region it returns is (y, x + w, y + h, x) of a detection (x, y, w, h)
\* whose ratio w / h lies in [0.8, 1.25].
C22_FallbackNeverRaisesAndFilters ==
  good_faces # NotCalled =>
    /\ good_faces.exc = "none"
    /\ cascade.raised => good_faces.value = <<>>
    /\ \A k \in 1..Len(good_faces.value) :
         \E p \in 1..Len(cascade.boxes) :
           /\ RatioInRange(cascade.boxes[p])
           /\ good_faces.value[k] = RegionOf(cascade.boxes[p])

\* C22 witness: of a detection of ratio exactly 0.8 and one just below it,
\* only the first was returned
C22_Witness ==
  /\ good_faces # NotCalled
  /\ cascade.boxes = <<Box(30, 40, 80, 101), Box(5, 7, 80, 100)>>
  /\ good_faces.value = <<<<7, 85, 107, 5>>>>

\* C22 witness of the failure half: the classifier raised and [] came back
C22_FailureWitness ==
  /\ good_faces = Ok(<<>>)
  /\ cascade.raised /\ cascade.at = "detectMultiScale"

\* what a request's comparator loads when the request is served alone
OwnImages(req) ==
  IF RequestRectangles(req) = <<>>
    THEN <<req.file1, req.file2>>
    ELSE <<CreateMaskedFile(req.file1, RequestRectangles(req), Black),
           CreateMaskedFile(req.file2, RequestRectangles(req), Black)>>

\* C23: two comparison calls served at the same time share no mutable state:
\* under every interleaving of their steps, the (masked) images a call's
\* comparator loads, and so its embeddings and verdict, are those of the
\* call's own two images and rectangle sets.
C23_ConcurrentCallsIndependent ==
  \A r \in DOMAIN requests :
    rpc[r] = "compared" => loaded[r] = OwnImages(requests[r])

\* the same for two requests whose uploads have different names
DisjointNames ==
  {requests[1].filename1, requests[1].filename2}
    \cap {requests[2].filename1, requests[2].filename2} = {}
C23_IndependentWhenNamesDiffer == DisjointNames => C23_ConcurrentCallsIndependent

WithinTolerance(r1, r2, tol) ==
  \A key \in {"x", "y", "width", "height"} :
    r1[key] - r2[key] <= tol /\ r2[key] - r1[key] <= tol

\* C24: validate_rectangles_match(r1, r2, tolerance) returns true exactly
\* when the two lists have the same length and at every position every one
\* of x, y, width, height differs by at most the tolerance; it returns false
\* for lists of different length or with a field differing by more.
C24_MatchIffWithinTolerance ==
  match_ret.exc = "none" =>
    (match_ret.value <=>
       /\ Len(match_args.rectangles1) = Len(match_args.rectangles2)
       /\ \A k \in 1..Len(match_args.rectangles1) :
            WithinTolerance(match_args.rectangles1[k], match_args.rectangles2[k],
                            match_args.tolerance))

\* C24 witness: two different lists of two rectangles, every field of which
\* differs by at most the default tolerance and one by exactly that
C24_Witness ==
  /\ match_ret.exc = "none" /\ match_ret.value
  /\ match_args.tolerance = 1
  /\ match_args.rectangles1 = <<R(10, 20, 30, 40), R(11, 19, 31, 39)>>
  /\ match_args.rectangles2 = <<R(11, 20, 30, 40), R(10, 20, 30, 40)>>

\* C24 witness of a refusal: equal lengths, the second pair too far apart
C24_RefusalWitness ==
  /\ match_ret.exc = "none" /\ ~match_ret.value
  /\ match_args.tolerance = 1
  /\ match_args.rectangles1 = <<R(10, 20, 30, 40), R(10, 20, 30, 40)>>
  /\ match_args.rectangles2 = <<R(10, 20, 30, 40), R(10, 20, 30, 42)>>

\* C25: when an image cannot be loaded (the file is missing or is not an
\* image), get_face_encodings returns (None, message) and compare_faces
\* returns (False, details): neither raises.
C25_LoadFailureReturnsVerdict ==
  /\ \A k \in 1..2 :
       (~files[k].ok /\ estate[k] \notin {"idle", "running"}) =>
         estate[k] = "returned" /\ encodings[k] = None
  /\ ((~files[1].ok \/ ~files[2].ok) /\ pc \in {"done", "raised"}) =>
       ret.kind = "returned" /\ ~ret.is_match

InSeq(x, s) == \E k \in 1..Len(s) : s[k] = x

\* C26: every normal return of get_face_encodings is (None, message) or a
\* non-empty list of embeddings, never an empty list; so when compare_faces
\* reaches the pairwise comparison both lists are non-empty, at least one
\* distance is computed and best_distance is finite after the loops: the
\* branch for "no finite distance" (confidence 0, "No measurable similarity
\* found", a summary with "inf") is never taken.
C26_EncodingsNeverEmpty ==
  /\ \A k \in 1..2 :
       estate[k] = "returned" => encodings[k] = None \/ Truthy(encodings[k])
  /\ pc \in {"pairs", "final"} => Truthy(encodings[1]) /\ Truthy(encodings[2])
  /\ pc = "final" => dcalls # <<>> /\ best_distance < Inf
  /\ ~InSeq("No measurable similarity found", printed)
  /\ ~InSeq("inf", ret.summary)

\* C26 witness: two embeddings per image were compared and the comparison
\* ended with a finite best distance
C26_Witness ==
  /\ pc = "done"
  /\ Len(encodings[1].items) = 2 /\ Len(encodings[2].items) = 2
  /\ Len(dcalls) = 4
  /\ best_distance = 2 * EmbStep
  /\ InSeq("Closest similarity: ", printed)

PairsCompared == pc = "done" /\ dcalls # <<>>

\* C27: for every tolerance > 0 and every two non-empty embedding lists, the
\* result of compare_faces has is_match true exactly when best_distance <=
\* tolerance, a confidence between 0 and 100 percent, and a confidence above
\* 0 only together with is_match.
C27_VerdictAndConfidenceAgree ==
  PairsCompared =>
    /\ tolerance > 0
    /\ is_match <=> best_distance <= tolerance
    /\ ret.is_match = is_match
    /\ 0 <= confidence /\ confidence <= 100 * 1000
    /\ confidence > 0 => is_match

\* C27 witness: the best distance equals the tolerance, which is a match
\* with confidence 0; and a comparison above the tolerance
C27_Witness ==
  /\ PairsCompared
  /\ best_distance = tolerance
  /\ is_match /\ confidence = 0
  /\ Len(dcalls) = 4

C27_NoMatchWitness ==
  /\ PairsCompared
  /\ best_distance > tolerance
  /\ ~is_match /\ confidence = 0

Upload(k) == IF k = 1 THEN form.file1 ELSE form.file2
\* the image the comparator read as image k derives from upload k
FromUpload(k) ==
  IF Canonical = <<>>
    THEN compare_call.read[k] = Upload(k)
    ELSE Decodable(Upload(k)) /\ MaskedWith(compare_call.read[k], Upload(k), Canonical)

\* C28: for every two accepted upload names, two equal names and a name
\* "masked_<the other name>" included, the file the comparator is given as
\* image 1 derives from upload 1 and the file given as image 2 from upload
\* 2, and no masked copy is written over a saved upload.
C28_UploadsKeptApart ==
  /\ wpc \in {"compared", "done"} => FromUpload(1) /\ FromUpload(2)
  /\ \A k \in 1..Len(mask_calls) : mask_calls[k].output \notin {Name1, Name2}

\* the same for requests whose two stored names and two masked names differ
C28_KeptApartWhenPathsDiffer == DistinctPaths => C28_UploadsKeptApart

ClampedInputs == [k \in 1..Len(InputItems) |-> Clamped13(Fields(InputItems[k]))]
\* out is in[f[1]], in[f[2]], ... for positions f[1] < f[2] < ...
IsSubsequence(out, in) ==
  \E f \in [1..Len(out) -> 1..Len(in)] :
    /\ \A a, b \in 1..Len(out) : a < b => f[a] < f[b]
    /\ \A a \in 1..Len(out) : out[a] = in[f[a]]

\* C29: for every list of rectangles with numeric fields, what
\* parse_rectangle_data returns is a subsequence of the clamped inputs in
\* their order, and parsing the serialized result again returns the same
\* list unchanged.
C29_IdempotentAndOrdered ==
  /\ parsed # NotCalled =>
       parsed.exc = "none" /\ IsSubsequence(parsed.value, ClampedInputs)
  /\ reparsed # NotCalled => reparsed = parsed

\* C29 witness: of a rectangle reaching over the right edge, one without
\* height and one over the left edge, the first and last came back clamped,
\* in this order, and the second call returned them again
C29_Witness ==
  /\ reparsed # NotCalled
  /\ Len(InputItems) = 2
  /\ Fields(InputItems[1]) = R(80, 50, 30, 60)
  /\ Fields(InputItems[2]) = R(-20, 0, 30, 50)
  /\ reparsed.value = <<R(80, 50, 20, 50), R(0, 0, 30, 50)>>

\* the mask was created and nothing else has been called since
JustCreated ==
  Created /\ masked_img = NoFile /\ stats = NoStats /\ disk["out"] = NoFile
MaskOf(rects) == CreateMaskFromRectangles(Source, rects).on
Reordered(rects, f) == [k \in 1..Len(rects) |-> rects[f[k]]]
Orders(n) == {f \in [1..n -> 1..n] : \A a, b \in 1..n : a # b => f[a] # f[b]}

\* C30: for an image of fixed dimensions, the mask of a list of rectangles is
\* the pixelwise OR of the masks of its rectangles taken alone; it is the
\* same for every order of the list and for the list with its rectangles
\* repeated, and appending a rectangle leaves every masked pixel masked.
C30_MaskIsOrOfSingleMasks ==
  JustCreated =>
    LET alone == [k \in 1..Len(rectangles) |-> MaskOf(<<rectangles[k]>>)]
        twice == MaskOf(rectangles \o rectangles)
        longer == [r \in MaskRects |-> MaskOf(Append(rectangles, r))]
    IN  /\ \A p \in Pixels(Source.w, Source.h) :
             mask.on[p] = \E k \in 1..Len(rectangles) : alone[k][p]
        /\ \A f \in Orders(Len(rectangles)) :
             MaskOf(Reordered(rectangles, f)) = mask.on
        /\ twice = mask.on
        /\ \A r \in MaskRects : \A p \in Pixels(Source.w, Source.h) :
             mask.on[p] => longer[r][p]

\* C30 witness: two overlapping rectangles on a 4 x 3 image, each masking a
\* pixel the other leaves free
C30_Witness ==
  /\ JustCreated
  /\ Source.w = 4
  /\ rectangles = <<R(0, 0, 50, 50), R(25, 25, 50, 50)>>
  /\ mask.on[<<0, 0>>] /\ ~MaskOf(<<rectangles[2]>>)[<<0, 0>>]
  /\ mask.on[<<2, 1>>] /\ ~MaskOf(<<rectangles[1]>>)[<<2, 1>>]
  /\ mask.on[<<1, 0>>] /\ ~mask.on[<<3, 2>>]

====
